---- MODULE Spec2Model ----
(***************************************************************************)
(* LocalStorageLRU (src/src/local-storage-lru.ts) on top of the bounded    *)
(* in-memory provider LocalStorageFallback (src/src/mock-ls.ts).           *)
(*                                                                         *)
(* Strings are sequences of one-character strings.  The provider's data is *)
(* a function from key strings to value strings.  Every public operation   *)
(* of the manager is one action; the random draws of an eviction pass are  *)
(* a nondeterministic choice, so an operation has a SET of outcomes, which *)
(* the operators below compute exactly as the loops of the code do.        *)
(***************************************************************************)
EXTENDS Integers, Sequences, FiniteSets, TLC

VARIABLES
  data,         \* LocalStorageFallback.data : key -> string
  size,         \* LocalStorageFallback.size : maximum number of entries, or Banned
  maxSize,      \* LocalStorageLRU.maxSize
  isCandidate,  \* LocalStorageLRU.isCandidate : "none" (not configured) or "filter"
  last,         \* what the most recent call did: its arguments, result and passes
  procs         \* where each manager on a shared store stands between two provider calls

vars == <<data, size, maxSize, isCandidate, last, procs>>

----------------------------------------------------------------------------
(* Bounds of the model *)

MaxCap == 3         \* capacity of the small bounded provider
MaxMaxSize == 2     \* largest recency window

----------------------------------------------------------------------------
(* Program constants *)

NUL == "NUL"                                       \* the character '\0'
recentKey == <<"_", "_", "r", "e", "c", "e", "n", "t">>
delimiter == <<NUL>>
FallbackSize == 1000
\* in the place of a capacity: a provider whose getItem, setItem, removeItem,
\* clear and length all raise
Banned == -1
TrimRounds == 10
MaxDeletes == 10
MaxDraws == 20

----------------------------------------------------------------------------
(* Strings *)

Min(a, b) == IF a <= b THEN a ELSE b

startsWith(s, p) == Len(s) >= Len(p) /\ SubSeq(s, 1, Len(p)) = p

\* String.prototype.indexOf, 1-based; 0 when absent (the code's -1)
indexOf(s, p) ==
  LET hits == {i \in 1..(Len(s) - Len(p) + 1) : SubSeq(s, i, i + Len(p) - 1) = p}
  IN IF hits = {} THEN 0 ELSE CHOOSE i \in hits : \A j \in hits : i <= j

\* the elements of a list
elements(list) == { list[i] : i \in 1..Len(list) }

\* the list without the elements outside S
RECURSIVE restrictTo(_, _)
restrictTo(list, S) ==
  IF Len(list) = 0 THEN <<>>
  ELSE IF list[1] \in S THEN <<list[1]>> \o restrictTo(Tail(list), S)
  ELSE restrictTo(Tail(list), S)

\* String.prototype.split with a non-empty separator
RECURSIVE split(_, _)
split(s, sep) ==
  LET i == indexOf(s, sep)
  IN IF i = 0 THEN <<s>>
     ELSE <<SubSeq(s, 1, i - 1)>> \o split(SubSeq(s, i + Len(sep), Len(s)), sep)

\* Array.prototype.join
RECURSIVE join(_, _)
join(list, sep) ==
  IF Len(list) = 0 THEN <<>>
  ELSE IF Len(list) = 1 THEN list[1]
  ELSE list[1] \o sep \o join(Tail(list), sep)

\* Array.prototype.filter((el) => el !== key)
RECURSIVE without(_, _)
without(list, key) ==
  IF Len(list) = 0 THEN <<>>
  ELSE IF list[1] = key THEN without(Tail(list), key)
  ELSE <<list[1]>> \o without(Tail(list), key)

\* Array.prototype.slice(0, n) for n >= 0
slice0(list, n) == SubSeq(list, 1, Min(n, Len(list)))

includes(list, key) == \E i \in 1..Len(list) : list[i] = key

----------------------------------------------------------------------------
(* Typed codec *)

X01 == "x01"
X02 == "x02"
X03 == "x03"
X04 == "x04"
X05 == "x05"
typePrefixDelimiter == <<NUL>>
parseExistingJSON == FALSE

DEFAULT_TYPE_PREFIXES ==
  [date   |-> <<NUL, X01, "d", "a", "t", "e">>,
   bigint |-> <<NUL, X02, "b", "i", "g", "i", "n", "t">>,
   object |-> <<NUL, X03, "o", "b", "j", "e", "c", "t">>,
   int    |-> <<NUL, X04, "i", "n", "t">>,
   float  |-> <<NUL, X05, "f", "l", "o", "a", "t">>]

\* preparePrefixes: every prefix, the configured one or else the default one,
\* with the delimiter after it
preparePrefixes(custom, delim) ==
  [t \in DOMAIN DEFAULT_TYPE_PREFIXES |->
     (IF t \in DOMAIN custom THEN custom[t] ELSE DEFAULT_TYPE_PREFIXES[t]) \o delim]

\* mutant: the prefixes are not checked
checkPrefixesNever(prefixes) == FALSE

\* checkPrefixes raises when the set of the prefixes is smaller than their list
checkPrefixes(prefixes) ==
  Cardinality({prefixes[t] : t \in DOMAIN prefixes}) # Cardinality(DOMAIN prefixes)

\* mutant: the prefixes are matched without the delimiter after them
typePrefixesBare == DEFAULT_TYPE_PREFIXES

typePrefixes ==
  [t \in DOMAIN DEFAULT_TYPE_PREFIXES |-> DEFAULT_TYPE_PREFIXES[t] \o typePrefixDelimiter]

\* JavaScript values, as far as the operations below need them
Str(s) == [kind |-> "string", str |-> s]
Num(n) == [kind |-> "number", num |-> n]          \* an integer-valued number
NaN == [kind |-> "NaN"]
BigInt(n) == [kind |-> "bigint", num |-> n]
Date(ms) == [kind |-> "date", ms |-> ms]
Bool(b) == [kind |-> "boolean", b |-> b]
JsNull == [kind |-> "null"]
Undefined == [kind |-> "undefined"]
Arr(es) == [kind |-> "array", elems |-> es]
Obj(ms) == [kind |-> "object", members |-> ms]   \* ms: the <<name, value>> pairs
Circular == [kind |-> "circular"]                 \* an object that refers to itself
NegZero == [kind |-> "-0"]                        \* the number -0
Exp21 == [kind |-> "1e21"]                        \* the integer-valued number 1e21
\* a number with a fraction: its sign, whole part and fraction digits (the
\* last one is not "0")
Float(neg, whole, frac) == [kind |-> "float", neg |-> neg, whole |-> whole, frac |-> frac]
Infinity(neg) == [kind |-> "infinity", neg |-> neg]
InvalidDate == [kind |-> "invalid date"]          \* new Date(NaN)

DigitChars == <<"0", "1", "2", "3", "4", "5", "6", "7", "8", "9">>
isDigit(c) == \E i \in 1..10 : DigitChars[i] = c
digitVal(c) == (CHOOSE i \in 1..10 : DigitChars[i] = c) - 1

RECURSIVE digits(_)
digits(n) == IF n < 10 THEN <<DigitChars[n + 1]>> ELSE digits(n \div 10) \o <<DigitChars[(n % 10) + 1]>>

\* `${n}` for an integer n
toString(n) == IF n < 0 THEN <<"-">> \o digits(0 - n) ELSE digits(n)

\* `${val}` for a number val: -0 prints as "0", and an integer from 1e21 on in
\* exponent notation
numberToString(val) ==
  CASE val.kind = "number" -> toString(val.num)
    [] val.kind = "-0" -> <<"0">>
    [] val.kind = "1e21" -> <<"1", "e", "+", "2", "1">>
    [] val.kind = "NaN" -> <<"N", "a", "N">>
    [] val.kind = "infinity" ->
         (IF val.neg THEN <<"-">> ELSE <<>>) \o <<"I", "n", "f", "i", "n", "i", "t", "y">>
    [] val.kind = "float" ->
         (IF val.neg THEN <<"-">> ELSE <<>>) \o digits(val.whole) \o <<".">> \o val.frac

\* the leading run of decimal digits of s, as [n, len]
RECURSIVE leadingDigits(_, _, _)
leadingDigits(s, n, len) ==
  IF Len(s) = 0 \/ ~isDigit(s[1]) THEN [n |-> n, len |-> len]
  ELSE leadingDigits(Tail(s), 10 * n + digitVal(s[1]), len + 1)

\* parseInt(s, 10): optional sign, then digits up to the first other character;
\* NaN when there is no digit.  It never throws.
parseInt(s) ==
  LET neg == Len(s) > 0 /\ s[1] = "-"
      body == IF Len(s) > 0 /\ s[1] \in {"-", "+"} THEN Tail(s) ELSE s
      r == leadingDigits(body, 0, 0)
  IN IF r.len = 0 THEN NaN
     ELSE IF neg /\ r.n = 0 THEN NegZero
     ELSE Num(IF neg THEN 0 - r.n ELSE r.n)

RECURSIVE trimZeros(_)
trimZeros(ds) ==
  IF Len(ds) > 0 /\ ds[Len(ds)] = "0" THEN trimZeros(SubSeq(ds, 1, Len(ds) - 1)) ELSE ds

\* parseFloat(s), for texts without an exponent: optional sign, then
\* "Infinity" or digits with an optional fraction, up to the first other
\* character; NaN when there is neither.  It never throws.
parseFloat(s) ==
  LET neg == Len(s) > 0 /\ s[1] = "-"
      body == IF Len(s) > 0 /\ s[1] \in {"-", "+"} THEN Tail(s) ELSE s
      r == leadingDigits(body, 0, 0)
      after == SubSeq(body, r.len + 1, Len(body))
      fracLen == IF Len(after) > 0 /\ after[1] = "." THEN leadingDigits(Tail(after), 0, 0).len ELSE 0
      frac == trimZeros(SubSeq(after, 2, fracLen + 1))
  IN IF startsWith(body, <<"I", "n", "f", "i", "n", "i", "t", "y">>) THEN Infinity(neg)
     ELSE IF r.len = 0 /\ fracLen = 0 THEN NaN
     ELSE IF Len(frac) > 0 THEN Float(neg, r.n, frac)
     ELSE IF neg /\ r.n = 0 THEN NegZero
     ELSE Num(IF neg THEN 0 - r.n ELSE r.n)

\* BigInt(s): an integer literal with nothing after it, or a SyntaxError
parseBigInt(s) ==
  LET neg == Len(s) > 0 /\ s[1] = "-"
      body == IF Len(s) > 0 /\ s[1] \in {"-", "+"} THEN Tail(s) ELSE s
      r == leadingDigits(body, 0, 0)
  IN IF Len(s) = 0 THEN [ok |-> TRUE, val |-> BigInt(0)]
     ELSE IF r.len = 0 \/ r.len # Len(body) THEN [ok |-> FALSE, val |-> JsNull]
     ELSE [ok |-> TRUE, val |-> BigInt(IF neg THEN 0 - r.n ELSE r.n)]

\* JSON.stringify (the default serializer) raises a TypeError on a circular
\* object and on a big integer, at any depth
RECURSIVE stringifyThrows(_)
stringifyThrows(val) ==
  \/ val = Circular
  \/ val.kind = "bigint"
  \/ val.kind = "array" /\ \E i \in 1..Len(val.elems) : stringifyThrows(val.elems[i])
  \/ val.kind = "object" /\ \E i \in 1..Len(val.members) : stringifyThrows(val.members[i][2])

\* the kinds serialize writes without the serializer
DirectKinds == {"string", "number", "-0", "1e21", "NaN", "float", "infinity", "date",
                "invalid date", "bigint"}

\* serialize(val) raises what the serializer raises
serializerThrows(val) == val.kind \notin DirectKinds /\ stringifyThrows(val)

\* JSON.stringify of the values that do not raise; strings are of characters
\* that need no escape, and every member of an object has a value
RECURSIVE serializer(_)
serializer(val) ==
  CASE val.kind = "null" -> <<"n", "u", "l", "l">>
    [] val.kind = "boolean" -> IF val.b THEN <<"t", "r", "u", "e">> ELSE <<"f", "a", "l", "s", "e">>
    [] val.kind \in {"number", "-0", "1e21", "float"} -> numberToString(val)
    [] val.kind = "string" -> <<"\"">> \o val.str \o <<"\"">>
    [] val.kind = "array" ->
         <<"[">> \o join([i \in 1..Len(val.elems) |-> serializer(val.elems[i])], <<",">>) \o <<"]">>
    [] val.kind = "object" ->
         <<"{">> \o join([i \in 1..Len(val.members) |->
                             <<"\"">> \o val.members[i][1] \o <<"\"", ":">>
                               \o serializer(val.members[i][2])], <<",">>) \o <<"}">>
    \* NaN, an infinity, undefined (in an array)
    [] OTHER -> <<"n", "u", "l", "l">>

JsonFail == [ok |-> FALSE, val |-> JsNull, rest |-> <<>>]

\* JSON.parse of the longest value at the head of s, for texts without white
\* space, escapes, fractions and exponents: [ok, val, rest]
RECURSIVE parseValue(_)
RECURSIVE parseElems(_, _)
RECURSIVE parseMembers(_, _)
parseValue(s) ==
  LET neg == Len(s) > 0 /\ s[1] = "-"
      body == IF neg THEN Tail(s) ELSE s
      r == leadingDigits(body, 0, 0)
      from(n) == SubSeq(s, n, Len(s))
  IN CASE startsWith(s, <<"n", "u", "l", "l">>) -> [ok |-> TRUE, val |-> JsNull, rest |-> from(5)]
       [] startsWith(s, <<"t", "r", "u", "e">>) -> [ok |-> TRUE, val |-> Bool(TRUE), rest |-> from(5)]
       [] startsWith(s, <<"f", "a", "l", "s", "e">>) -> [ok |-> TRUE, val |-> Bool(FALSE), rest |-> from(6)]
       [] Len(s) > 0 /\ s[1] = "\"" ->
            LET i == indexOf(Tail(s), <<"\"">>)
            IN IF i = 0 THEN JsonFail
               ELSE [ok |-> TRUE, val |-> Str(SubSeq(s, 2, i)), rest |-> from(i + 2)]
       [] Len(s) > 0 /\ s[1] = "[" ->
            IF Len(s) > 1 /\ s[2] = "]" THEN [ok |-> TRUE, val |-> Arr(<<>>), rest |-> from(3)]
            ELSE parseElems(Tail(s), <<>>)
       [] Len(s) > 0 /\ s[1] = "{" ->
            IF Len(s) > 1 /\ s[2] = "}" THEN [ok |-> TRUE, val |-> Obj(<<>>), rest |-> from(3)]
            ELSE parseMembers(Tail(s), <<>>)
       [] r.len > 0 /\ (r.len = 1 \/ body[1] # "0") ->
            [ok |-> TRUE,
             val |-> IF neg /\ r.n = 0 THEN NegZero ELSE Num(IF neg THEN 0 - r.n ELSE r.n),
             rest |-> SubSeq(body, r.len + 1, Len(body))]
       [] OTHER -> JsonFail

\* the elements of an array after its "[", up to its "]"
parseElems(s, acc) ==
  LET r == parseValue(s)
  IN IF ~r.ok \/ Len(r.rest) = 0 THEN JsonFail
     ELSE IF r.rest[1] = "," THEN parseElems(Tail(r.rest), Append(acc, r.val))
     ELSE IF r.rest[1] = "]" THEN [ok |-> TRUE, val |-> Arr(Append(acc, r.val)), rest |-> Tail(r.rest)]
     ELSE JsonFail

\* the members of an object after its "{", up to its "}"
parseMembers(s, acc) ==
  LET name == IF Len(s) > 0 /\ s[1] = "\"" THEN parseValue(s) ELSE JsonFail
      r == IF name.ok /\ Len(name.rest) > 0 /\ name.rest[1] = ":"
             THEN parseValue(Tail(name.rest)) ELSE JsonFail
      member == <<name.val.str, r.val>>
  IN IF ~r.ok \/ Len(r.rest) = 0 THEN JsonFail
     ELSE IF r.rest[1] = "," THEN parseMembers(Tail(r.rest), Append(acc, member))
     ELSE IF r.rest[1] = "}" THEN [ok |-> TRUE, val |-> Obj(Append(acc, member)), rest |-> Tail(r.rest)]
     ELSE JsonFail

\* JSON.parse (the default deserializer): [ok, val]; ok = FALSE is a SyntaxError
deserializer(s) ==
  LET r == parseValue(s)
  IN IF r.ok /\ Len(r.rest) = 0 THEN [ok |-> TRUE, val |-> r.val] ELSE [ok |-> FALSE, val |-> JsNull]

\* serialize, for the values whose serializer does not raise
serialize(val) ==
  IF val.kind = "string" THEN val.str
  \* Number.isInteger(val)
  ELSE IF val.kind \in {"number", "-0", "1e21"} THEN typePrefixes.int \o numberToString(val)
  \* typeof val === 'number'
  ELSE IF val.kind \in {"NaN", "float", "infinity"} THEN typePrefixes.float \o numberToString(val)
  ELSE IF val.kind = "date" THEN typePrefixes.date \o toString(val.ms)
  ELSE IF val = InvalidDate THEN typePrefixes.date \o numberToString(NaN)
  ELSE IF val.kind = "bigint" THEN typePrefixes.bigint \o toString(val.num)
  ELSE IF val = Undefined THEN typePrefixes.object \o serializer(JsNull)
  ELSE typePrefixes.object \o serializer(val)

\* what getItem returns: null, a string, or (for a name the provider's plain
\* object inherits from Object.prototype) the inherited function
NullItem == [isNull |-> TRUE, isString |-> FALSE, str |-> <<>>]
Item(s) == [isNull |-> FALSE, isString |-> TRUE, str |-> s]
PrototypeItem == [isNull |-> FALSE, isString |-> FALSE, str |-> <<>>]

\* the value get returns for an inherited function
PrototypeFunction == [kind |-> "function"]

\* the calls the stack has room for, one inside the other
StackFrames == 3

\* deserialize entered as the depth-th call on the stack, for a manager whose
\* parseExistingJSON option is probing: the value returned, and the number of
\* times deserialize was entered
RECURSIVE deserializeFrom(_, _, _)
deserializeFrom(ser, probing, depth) ==
  LET once(v) == [val |-> v, entries |-> depth]
      raw == ser.str
      rest(p) == SubSeq(raw, Len(p) + 1, Len(raw))
      \* no prefix was matched
      plain ==
        IF ~probing THEN once(IF ser.isString THEN Str(raw) ELSE PrototypeFunction)
        \* this.deserialize is never JSON.parse: deserialize calls itself with
        \* the same string
        ELSE IF depth < StackFrames THEN deserializeFrom(ser, probing, depth + 1)
        \* the call that finds no room raises a RangeError, which is swallowed,
        \* and JSON.parse(ser) is tried
        ELSE IF ~ser.isString THEN once(PrototypeFunction)
        ELSE LET r == deserializer(raw) IN once(IF r.ok THEN r.val ELSE Str(raw))
  IN IF ser.isNull THEN once(JsNull)
     \* ser.startsWith is not a function: the TypeError is swallowed
     ELSE IF ~ser.isString THEN plain
     ELSE IF startsWith(raw, typePrefixes.object)
            THEN LET r == deserializer(rest(typePrefixes.object))
                 IN once(IF r.ok THEN r.val ELSE Str(rest(typePrefixes.object)))
          ELSE IF startsWith(raw, typePrefixes.int)
            THEN once(parseInt(rest(typePrefixes.int)))
          ELSE IF startsWith(raw, typePrefixes.float)
            THEN once(parseFloat(rest(typePrefixes.float)))
          ELSE IF startsWith(raw, typePrefixes.date)
            THEN LET r == parseInt(rest(typePrefixes.date))
                 IN once(IF r = NaN THEN InvalidDate
                         ELSE IF r = NegZero THEN Date(0) ELSE Date(r.num))
          ELSE IF startsWith(raw, typePrefixes.bigint)
            THEN LET r == parseBigInt(rest(typePrefixes.bigint))
                 IN once(IF r.ok THEN r.val ELSE Str(rest(typePrefixes.bigint)))
          ELSE plain

deserialize(ser) == deserializeFrom(ser, parseExistingJSON, 1).val

----------------------------------------------------------------------------
(* LocalStorageFallback: the provider *)

length(d) == Cardinality(DOMAIN d)

\* a name that data = {} inherits from Object.prototype
ObjectPrototypeKey == <<"v", "a", "l", "u", "e", "O", "f">>

\* this.data[key] ?? null: an own entry, else what the prototype chain gives
getItem(d, k) ==
  IF k \in DOMAIN d THEN Item(d[k])
  ELSE IF k = ObjectPrototypeKey THEN PrototypeItem
  ELSE NullItem

\* mutant: the store takes one entry more than its size
setItemOkOffByOne(d) == length(d) <= size

\* setItem raises 'storage full' exactly when this is false
setItemOk(d) == length(d) < size

\* mutant: every write is also made under the empty key
setItemShadow(d, k, v) == [x \in DOMAIN d \cup {k, <<>>} |-> IF x \in {k, <<>>} THEN v ELSE d[x]]

\* the data after a setItem that did not raise
setItem(d, k, v) == [x \in DOMAIN d \cup {k} |-> IF x = k THEN v ELSE d[x]]

removeItem(d, k) == [x \in DOMAIN d \ {k} |-> d[x]]

EmptyData == [x \in {} |-> <<>>]

----------------------------------------------------------------------------
(* LocalStorageLRU: the manager's internals *)

\* the admission predicate of the tests' candidate filter: everything but one key
KeepKey == <<"a">>
isCandidateFn(key, recent) == key # KeepKey

has(d, key) == ~getItem(d, key).isNull

getRecent(d) ==
  LET v == getItem(d, recentKey)
  IN IF v.isNull THEN <<>> ELSE split(v.str, delimiter)

\* keys(): the stored keys without the recency key (their order is not modelled)
keys(d) == DOMAIN d \ {recentKey}

\* mutant: size() counts the recency entry too
lruSizeCountsRecent(d) == length(d)

\* size(): ls.length, minus one when the recency entry is present
lruSize(d) == IF has(d, recentKey) THEN length(d) - 1 ELSE length(d)

\* mutant: the draw does not look at the recency list
drawStepIgnoresRecent(st, candidate, recent) ==
  IF candidate = recentKey THEN st
  ELSE IF isCandidate # "none" /\ ~isCandidateFn(candidate, recent) THEN st
  ELSE LET d2 == removeItem(st.data, candidate)
           num2 == st.num - 1
       IN [data |-> d2, num |-> num2, done |-> (num2 <= 0 \/ lruSize(d2) = 0)]

\* mutant: the draw does not consult isCandidate
drawStepIgnoresFilter(st, candidate, recent) ==
  IF candidate = recentKey THEN st
  ELSE IF includes(recent, candidate) THEN st
  ELSE LET d2 == removeItem(st.data, candidate)
           num2 == st.num - 1
       IN [data |-> d2, num |-> num2, done |-> (num2 <= 0 \/ lruSize(d2) = 0)]

\* mutant: the deletions are not counted
drawStepNoCount(st, candidate, recent) ==
  IF candidate = recentKey THEN st
  ELSE IF includes(recent, candidate) THEN st
  ELSE IF isCandidate # "none" /\ ~isCandidateFn(candidate, recent) THEN st
  ELSE LET d2 == removeItem(st.data, candidate)
       IN [data |-> d2, num |-> st.num, done |-> lruSize(d2) = 0]

\* one draw of trimOldEntries, on the loop state st = [data, num, done]
drawStep(st, candidate, recent) ==
  IF candidate = recentKey THEN st
  ELSE IF includes(recent, candidate) THEN st
  ELSE IF isCandidate # "none" /\ ~isCandidateFn(candidate, recent) THEN st
  ELSE LET d2 == removeItem(st.data, candidate)
           num2 == st.num - 1
       IN [data |-> d2, num |-> num2, done |-> (num2 <= 0 \/ lruSize(d2) = 0)]

\* the loop states after draws i+1 .. MaxDraws, over every choice of the draws
\* (once a draw adds no new loop state, the later draws add none either)
RECURSIVE trimDraws(_, _, _, _)
trimDraws(i, ks, recent, states) ==
  IF i = MaxDraws THEN states
  ELSE LET next == UNION { IF st.done THEN {st} ELSE {drawStep(st, c, recent) : c \in ks}
                           : st \in states }
       IN IF next = states THEN states ELSE trimDraws(i + 1, ks, recent, next)

\* the loop states that at most MaxDraws - i further draws reach from those in
\* frontier, together with those in seen
RECURSIVE trimReach(_, _, _, _, _)
trimReach(i, ks, recent, seen, frontier) ==
  IF i = MaxDraws \/ frontier = {} THEN seen
  ELSE LET new == UNION { {drawStep(st, c, recent) : c \in ks}
                          : st \in {f \in frontier : ~f.done} } \ seen
       IN trimReach(i + 1, ks, recent, seen \cup new, new)

\* the loop states the pass can end in, from the loop state st.  When some key
\* is one the draws skip, a draw can leave any loop state as it is, and the
\* pass ends in the states that at most MaxDraws draws reach.
trimLoop(st, ks, recent) ==
  IF \E c \in ks : drawStep(st, c, recent) = st
    THEN trimReach(0, ks, recent, {st}, {st})
    ELSE trimDraws(0, ks, recent, {st})

\* trimOldEntries: the set of data it can leave behind
trimOldEntries(d) ==
  IF lruSize(d) = 0 THEN {d}
  ELSE { st.data : st \in trimLoop([data |-> d, num |-> Min(lruSize(d), MaxDeletes), done |-> FALSE],
                                   keys(d), getRecent(d)) }

\* what one eviction pass did: the recency list it read and the keys it removed
passRecord(d, d2) == [recent |-> getRecent(d), removed |-> DOMAIN d \ DOMAIN d2]

\* mutant: trim runs one eviction pass and gives up without writing again
trimFromGivesUp(i, d, outs, key, val) ==
  { [data |-> d2, ok |-> FALSE, passes |-> {passRecord(d, d2)}, rounds |-> 1] : d2 \in outs }

\* mutant: trim runs one round more before it gives up
RECURSIVE trimFromOneMore(_, _, _, _, _)
trimFromOneMore(i, d, outs, key, val) ==
  IF i = TrimRounds + 1 THEN {[data |-> d, ok |-> FALSE, passes |-> {}, rounds |-> i]}
  ELSE UNION { LET pass == passRecord(d, d2)
               IN IF setItemOk(d2)
                    THEN {[data |-> setItem(d2, key, val), ok |-> TRUE, passes |-> {pass},
                           rounds |-> i + 1]}
                    ELSE {[r EXCEPT !.passes = @ \cup {pass}]
                           : r \in trimFromOneMore(i + 1, d2, IF d2 = d THEN outs ELSE trimOldEntries(d2), key, val)}
               : d2 \in outs }

\* trim(key, val) from round i on: the set of [data, ok, passes, rounds] it can
\* end with; rounds is the number of rounds it ran, each one pass and one write.
\* outs is trimOldEntries(d), the data the pass of this round can leave behind; a
\* pass that leaves d as it is has the same outcomes in the next round.
RECURSIVE trimFrom(_, _, _, _, _)
trimFrom(i, d, outs, key, val) ==
  IF i = TrimRounds THEN {[data |-> d, ok |-> FALSE, passes |-> {}, rounds |-> i]}
  ELSE UNION { LET pass == passRecord(d, d2)
               IN IF setItemOk(d2)
                    THEN {[data |-> setItem(d2, key, val), ok |-> TRUE, passes |-> {pass},
                           rounds |-> i + 1]}
                    ELSE {[r EXCEPT !.passes = @ \cup {pass}]
                           : r \in trimFrom(i + 1, d2, IF d2 = d THEN outs ELSE trimOldEntries(d2), key, val)}
               : d2 \in outs }

trim(d, key, val) == trimFrom(0, d, trimOldEntries(d), key, val)

\* mutant: recordUsage appends the key instead of putting it first
recordUsageAppends(d, key) ==
  LET keys0 == getRecent(d)
      keys1 == slice0(keys0, maxSize - 1)
      keys2 == without(keys1, key)
      keys3 == keys2 \o <<key>>
      nextRecentUsage == join(keys3, delimiter)
  IN IF setItemOk(d)
       THEN {[data |-> setItem(d, recentKey, nextRecentUsage), ok |-> TRUE, passes |-> {}, rounds |-> 0]}
       ELSE trim(d, recentKey, nextRecentUsage)

\* mutant: recordUsage does not cut the list before it inserts the key
recordUsageNoSlice(d, key) ==
  LET keys0 == getRecent(d)
      keys2 == without(keys0, key)
      keys3 == <<key>> \o keys2
      nextRecentUsage == join(keys3, delimiter)
  IN IF setItemOk(d)
       THEN {[data |-> setItem(d, recentKey, nextRecentUsage), ok |-> TRUE, passes |-> {}, rounds |-> 0]}
       ELSE trim(d, recentKey, nextRecentUsage)

\* mutant: the list is cut to maxSize keys before the key is put first
recordUsageKeepsMaxSize(d, key) ==
  LET keys0 == getRecent(d)
      keys1 == slice0(keys0, maxSize)
      keys2 == without(keys1, key)
      keys3 == <<key>> \o keys2
      nextRecentUsage == join(keys3, delimiter)
  IN IF setItemOk(d)
       THEN {[data |-> setItem(d, recentKey, nextRecentUsage), ok |-> TRUE, passes |-> {}, rounds |-> 0]}
       ELSE trim(d, recentKey, nextRecentUsage)

\* mutant: the entries of the keys that fall off the list are removed
recordUsageEvictsDropped(d, key) ==
  LET keys0 == getRecent(d)
      keys1 == slice0(keys0, maxSize - 1)
      keys2 == without(keys1, key)
      keys3 == <<key>> \o keys2
      nextRecentUsage == join(keys3, delimiter)
      dropped == elements(keys0) \ elements(keys3)
      d1 == [x \in DOMAIN d \ dropped |-> d[x]]
  IN IF setItemOk(d1)
       THEN {[data |-> setItem(d1, recentKey, nextRecentUsage), ok |-> TRUE, passes |-> {}, rounds |-> 0]}
       ELSE trim(d1, recentKey, nextRecentUsage)

\* mutant: the list is cut to maxSize + 1 keys before the key is put first
recordUsageKeepsTwoMore(d, key) ==
  LET keys0 == getRecent(d)
      keys1 == slice0(keys0, maxSize + 1)
      keys2 == without(keys1, key)
      keys3 == <<key>> \o keys2
      nextRecentUsage == join(keys3, delimiter)
  IN IF setItemOk(d)
       THEN {[data |-> setItem(d, recentKey, nextRecentUsage), ok |-> TRUE, passes |-> {}, rounds |-> 0]}
       ELSE trim(d, recentKey, nextRecentUsage)

\* recordUsage(key): the set of [data, ok, passes]; ok says the list was written
recordUsage(d, key) ==
  LET keys0 == getRecent(d)
      keys1 == slice0(keys0, maxSize - 1)
      keys2 == without(keys1, key)
      keys3 == <<key>> \o keys2
      nextRecentUsage == join(keys3, delimiter)
  IN IF setItemOk(d)
       THEN {[data |-> setItem(d, recentKey, nextRecentUsage), ok |-> TRUE, passes |-> {}, rounds |-> 0]}
       ELSE trim(d, recentKey, nextRecentUsage)

\* deleteUsage(key): a failed write of the list is logged and the list stays
deleteUsage(d, key) ==
  LET keys1 == without(getRecent(d), key)
  IN IF setItemOk(d) THEN setItem(d, recentKey, join(keys1, delimiter)) ELSE d

----------------------------------------------------------------------------
(* LocalStorageLRU: the public operations, as sets of outcomes *)

\* the record of a call.  yielded: the pairs an iteration gave; prefixes: the
\* type prefix table of the manager a construction made; fullBefore: the recency
\* list held maxSize keys when the get or set started; valAttempts: the number
\* of times the set called setItem for the value; probing: the get was made by a
\* manager with parseExistingJSON; entries: the number of times the get entered
\* deserialize
NoCall ==
  [op |-> "new", key |-> <<>>, val |-> JsNull, threw |-> "none", ret |-> JsNull,
   recOk |-> FALSE, valOk |-> FALSE, hitCap |-> FALSE, recentAtWrite |-> <<>>,
   recPasses |-> {}, valPasses |-> {}, gone |-> {}, yielded |-> <<>>,
   prefixes |-> typePrefixes, fullBefore |-> FALSE, valAttempts |-> 0,
   probing |-> FALSE, entries |-> 0]

\* the managers of a shared store
Instances == {1, 2}

\* a manager that is in no call.  In a call: pc is the provider call it makes
\* next; next the recency list it is about to write; target what trim writes
\* ("rec": the list, "val": the value); n, num
\* and snap the locals v, num and keys of size() and trimOldEntries; cands the
\* keys of snap that a draw deletes and skips whether snap has a key that a draw
\* skips, both fixed when trimOldEntries has read the list; threw the error the
\* call ended with.
Idle ==
  [pc |-> "idle", op |-> "none", key |-> <<>>, next |-> <<>>, target |-> "none",
   n |-> 0, num |-> 0, snap |-> {}, cands |-> {}, skips |-> FALSE,
   threw |-> "none"]

\* mutant: set does not look for the delimiter in the key
keyErrorNoDelimiterCheck(key) ==
  IF key = recentKey THEN "reserved" ELSE "none"

\* the two checks at the top of set: the error they raise, or "none"
keyError(key) ==
  IF key = recentKey THEN "reserved"
  ELSE IF indexOf(key, delimiter) # 0 THEN "delimiter"
  ELSE "none"

\* mutant: set writes the value first and records the usage afterwards
setWritesValueFirst(d, key, val) ==
  LET call == [NoCall EXCEPT !.op = "set", !.key = key, !.val = val]
  IN IF keyError(key) # "none"
       THEN {[data |-> d, call |-> [call EXCEPT !.threw = keyError(key)]]}
     ELSE IF serializerThrows(val)
       THEN {[data |-> d, call |-> [call EXCEPT !.threw = "serializer"]]}
     ELSE LET valSer == serialize(val)
              c1 == [call EXCEPT !.recentAtWrite = getRecent(d)]
              written == IF setItemOk(d)
                           THEN {[data |-> setItem(d, key, valSer), ok |-> TRUE, passes |-> {}, rounds |-> 0]}
                           ELSE trim(d, key, valSer)
          IN UNION { { [data |-> ru.data,
                        call |-> [c1 EXCEPT !.hitCap = ~setItemOk(d), !.valOk = t.ok,
                                            !.valPasses = t.passes, !.recOk = ru.ok,
                                            !.recPasses = ru.passes]]
                       : ru \in recordUsage(t.data, key) }
                     : t \in written }

\* mutant: set records the usage of a key only when it stores the key anew
setRecordsNewKeysOnly(d, key, val) ==
  LET call == [NoCall EXCEPT !.op = "set", !.key = key, !.val = val]
  IN IF keyError(key) # "none"
       THEN {[data |-> d, call |-> [call EXCEPT !.threw = keyError(key)]]}
     ELSE IF serializerThrows(val)
       THEN {[data |-> d, call |-> [call EXCEPT !.threw = "serializer"]]}
     ELSE LET valSer == serialize(val)
          IN UNION {
               LET c1 == [call EXCEPT !.recOk = ru.ok, !.recPasses = ru.passes,
                                      !.recentAtWrite = getRecent(ru.data)]
               IN IF setItemOk(ru.data)
                    THEN {[data |-> setItem(ru.data, key, valSer),
                           call |-> [c1 EXCEPT !.valOk = TRUE, !.valAttempts = 1]]}
                    ELSE {[data |-> t.data,
                           call |-> [c1 EXCEPT !.hitCap = TRUE, !.valOk = t.ok, !.valPasses = t.passes,
                                               !.valAttempts = 1 + t.rounds]]
                          : t \in trim(ru.data, key, valSer)}
               : ru \in (IF key \in DOMAIN d
                           THEN {[data |-> d, ok |-> TRUE, passes |-> {}, rounds |-> 0]}
                           ELSE recordUsage(d, key)) }

\* set(key, val): the set of [data, call]
set(d, key, val) ==
  LET call == [NoCall EXCEPT !.op = "set", !.key = key, !.val = val]
  IN IF keyError(key) # "none"
       THEN {[data |-> d, call |-> [call EXCEPT !.threw = keyError(key)]]}
     ELSE IF serializerThrows(val)
       THEN {[data |-> d, call |-> [call EXCEPT !.threw = "serializer"]]}
     ELSE LET valSer == serialize(val)
          IN UNION {
               LET c1 == [call EXCEPT !.recOk = ru.ok, !.recPasses = ru.passes,
                                      !.recentAtWrite = getRecent(ru.data),
                                      !.fullBefore = (Len(getRecent(d)) = maxSize)]
               IN IF setItemOk(ru.data)
                    THEN {[data |-> setItem(ru.data, key, valSer),
                           call |-> [c1 EXCEPT !.valOk = TRUE, !.valAttempts = 1]]}
                    ELSE {[data |-> t.data,
                           call |-> [c1 EXCEPT !.hitCap = TRUE, !.valOk = t.ok, !.valPasses = t.passes,
                                               !.valAttempts = 1 + t.rounds]]
                          : t \in trim(ru.data, key, valSer)}
               : ru \in recordUsage(d, key) }

\* get(key): the set of [data, call]; the provider here never raises on a read
\* get(key) of a manager whose parseExistingJSON option is probing
getWith(d, key, probing) ==
  LET v == getItem(d, key)
      r == deserializeFrom(v, probing, 1)
  IN { [data |-> ru.data,
        call |-> [NoCall EXCEPT !.op = "get", !.key = key, !.ret = r.val,
                                !.recOk = ru.ok, !.recPasses = ru.passes,
                                !.fullBefore = (Len(getRecent(d)) = maxSize),
                                !.probing = probing, !.entries = r.entries]]
       : ru \in recordUsage(d, key) }

get(d, key) == getWith(d, key, parseExistingJSON)

\* delete(key): the data it leaves behind, for a key that is not the recency key
deleteKey(d, key) == removeItem(deleteUsage(d, key), key)

\* deletePrefix(prefix): delete(k) for every matching key, in the order keys() has them
RECURSIVE deleteAll(_, _)
deleteAll(d, ks) ==
  IF ks = {} THEN {d} ELSE UNION { deleteAll(deleteKey(d, k), ks \ {k}) : k \in ks }

\* mutant: deletePrefix deletes every caller key, whatever its text starts with
deletePrefixDeletesAll(d, prefix) ==
  deleteAll(d, {k \in keys(d) : k # recentKey})

deletePrefix(d, prefix) ==
  deleteAll(d, {k \in keys(d) : startsWith(k, prefix) /\ k # recentKey})

\* the iterator, run to its end over the keys ks that keys() gave it, in their
\* order: get(k) for each, and a pair for every value that is not null.  The
\* set of [data, yielded].
RECURSIVE iterateFrom(_, _, _)
iterateFrom(d, ks, acc) ==
  IF Len(ks) = 0 THEN {[data |-> d, yielded |-> acc]}
  ELSE UNION { iterateFrom(out.data, Tail(ks),
                           IF out.call.ret = JsNull THEN acc
                           ELSE Append(acc, <<Head(ks), out.call.ret>>))
               : out \in get(d, Head(ks)) }

\* the sequences that hold every element of S once
RECURSIVE Perms(_)
Perms(S) ==
  IF S = {} THEN {<<>>} ELSE UNION { {<<x>> \o p : p \in Perms(S \ {x})} : x \in S }

RECURSIVE reverse(_)
reverse(list) == IF Len(list) = 0 THEN <<>> ELSE reverse(Tail(list)) \o <<list[1]>>

\* Object.keys gives the keys in the order of their insertion.  In a store
\* filled by sets of distinct keys, none of which raised, the recency list is
\* the last keys inserted, most recent first, and every order of the keys
\* outside the list is the order of some such filling.
insertionOrders(d) ==
  LET recent == restrictTo(getRecent(d), keys(d))
  IN { p \o reverse(recent) : p \in Perms(keys(d) \ elements(recent)) }

----------------------------------------------------------------------------
(* Inputs *)

PlainKeys == {<<"a">>, ObjectPrototypeKey}
EmptyKey == <<>>
DelimKey == <<"a">> \o delimiter \o <<"b">>
Keys == PlainKeys \cup {EmptyKey, DelimKey, recentKey}
Values == {Num(7), Circular}
Prefixes == {<<>>, <<"a">>}
HasKeys == {<<"a">>, recentKey, ObjectPrototypeKey}
AcceptedKeys == PlainKeys \cup {EmptyKey}
InsertKeys == AcceptedKeys \cup {<<"c">>}
InsertValues == {Num(7)}
\* the values of the codec runs: plain strings, strings that begin with the
\* text of a type prefix, with and without the delimiter after it, and values
\* of every kind serialize tells apart
CodecKey == <<"a">>
CodecStrings ==
  {<<>>, <<"h", "i">>, <<"1", "2">>,
   DEFAULT_TYPE_PREFIXES.int \o <<"4">>,
   typePrefixes.int \o <<"4">>,
   typePrefixes.int \o <<"x">>,
   typePrefixes.float \o <<"x">>,
   typePrefixes.date \o <<"x">>,
   typePrefixes.bigint \o <<"x">>,
   typePrefixes.object \o <<"{">>}
CodecValues ==
  {Str(str) : str \in CodecStrings}
  \cup {Num(0), Num(7), Num(0 - 123), NegZero, Exp21, NaN, Infinity(FALSE), Infinity(TRUE),
        Float(FALSE, 3, <<"1", "4">>), Float(TRUE, 0, <<"5">>),
        Bool(TRUE), Bool(FALSE), JsNull, Undefined,
        Date(0), Date(19), InvalidDate, BigInt(123), BigInt(0 - 5),
        Arr(<<>>), Arr(<<Num(1), Str(<<"b">>), Arr(<<JsNull>>)>>),
        Obj(<<>>),
        Obj(<< <<<<"a">>, Num(0 - 1)>>,
               <<<<"b">>, Obj(<< <<<<"c">>, Arr(<<Bool(TRUE), Str(<<>>)>>)>> >>)>> >>)}
\* the typePrefixes option: any of the five prefixes may be left out
CustomPrefixes == {<<"p">>, DEFAULT_TYPE_PREFIXES.int}
PrefixConfigs ==
  UNION { [given -> CustomPrefixes] : given \in SUBSET DOMAIN DEFAULT_TYPE_PREFIXES }
PrefixDelimiters == {<<NUL>>, <<>>}
\* the keys of a store with more entries than one pass may delete
TrimKeyNames == <<"k01", "k02", "k03", "k04", "k05", "k06", "k07", "k08", "k09", "k10", "k11", "k12">>
TrimKey(i) == <<TrimKeyNames[i]>>
IterateCap == Cardinality(AcceptedKeys) + 1
Sizes == {0, 1, MaxCap, FallbackSize}

----------------------------------------------------------------------------
(* The state machine *)

Init ==
  /\ data = EmptyData
  /\ size \in Sizes
  /\ maxSize \in 1..MaxMaxSize
  /\ isCandidate \in {"none", "filter"}
  /\ last = NoCall
  /\ procs = [i \in Instances |-> Idle]

Set(key, val) ==
  /\ \E out \in set(data, key, val) : data' = out.data /\ last' = out.call
  /\ UNCHANGED <<size, maxSize, isCandidate, procs>>

\* on a provider that raises, getItem raises inside get's try: usage is not
\* recorded and null is returned
Get(key) ==
  /\ IF size = Banned
       THEN /\ data' = data
            /\ last' = [NoCall EXCEPT !.op = "get", !.key = key]
       ELSE \E out \in get(data, key) : data' = out.data /\ last' = out.call
  /\ UNCHANGED <<size, maxSize, isCandidate, procs>>

\* mutant: delete does not refuse the recency key
DeleteNoReservedCheck(key) ==
  /\ data' = deleteKey(data, key)
  /\ last' = [NoCall EXCEPT !.op = "delete", !.key = key]
  /\ UNCHANGED <<size, maxSize, isCandidate, procs>>

Delete(key) ==
  /\ IF key = recentKey
       THEN /\ data' = data
            /\ last' = [NoCall EXCEPT !.op = "delete", !.key = key, !.threw = "reserved"]
       ELSE /\ data' = deleteKey(data, key)
            /\ last' = [NoCall EXCEPT !.op = "delete", !.key = key]
  /\ UNCHANGED <<size, maxSize, isCandidate, procs>>

\* has(key) reads the provider and writes nothing; it has no try, so what
\* getItem raises reaches the caller
Has(key) ==
  /\ data' = data
  /\ last' = IF size = Banned
              THEN [NoCall EXCEPT !.op = "has", !.key = key, !.threw = "provider"]
              ELSE [NoCall EXCEPT !.op = "has", !.key = key, !.ret = Bool(has(data, key))]
  /\ UNCHANGED <<size, maxSize, isCandidate, procs>>

\* getRecent(): the empty list when getItem raises
GetRecent ==
  /\ data' = data
  /\ last' = [NoCall EXCEPT !.op = "getRecent",
                            !.ret = Arr(IF size = Banned THEN <<>> ELSE getRecent(data))]
  /\ UNCHANGED <<size, maxSize, isCandidate, procs>>

\* keys() has no try.  It calls no method of a provider that is not the
\* fallback store but enumerates the provider object itself: whether that
\* raises, as on a proxy, or gives no stored key is the provider's choice.
KeysCall ==
  /\ data' = data
  /\ \E threw \in (IF size = Banned THEN {"none", "provider"} ELSE {"none"}) :
        last' = [NoCall EXCEPT !.op = "keys", !.threw = threw,
                               !.ret = [kind |-> "keys",
                                        elems |-> IF size = Banned THEN {} ELSE keys(data)]]
  /\ UNCHANGED <<size, maxSize, isCandidate, procs>>

\* size(): 0 when reading the provider's length raises
SizeCall ==
  /\ data' = data
  /\ last' = [NoCall EXCEPT !.op = "size",
                            !.ret = Num(IF size = Banned THEN 0 ELSE lruSize(data))]
  /\ UNCHANGED <<size, maxSize, isCandidate, procs>>

\* the provider stops working: from now on every access to it raises
Ban ==
  /\ size # Banned
  /\ size' = Banned
  /\ last' = [NoCall EXCEPT !.op = "ban"]
  /\ UNCHANGED <<data, maxSize, isCandidate, procs>>

\* gone: the keys of the entries a clear or deletePrefix call took out of the store
Clear ==
  /\ data' = EmptyData
  /\ last' = [NoCall EXCEPT !.op = "clear", !.ret = Bool(TRUE), !.gone = DOMAIN data]
  /\ UNCHANGED <<size, maxSize, isCandidate, procs>>

DeletePrefix(prefix) ==
  /\ \E d2 \in deletePrefix(data, prefix) :
        /\ data' = d2
        /\ last' = [NoCall EXCEPT !.op = "deletePrefix", !.key = prefix,
                                  !.gone = DOMAIN data \ DOMAIN d2]
  /\ UNCHANGED <<size, maxSize, isCandidate, procs>>

\* for (const [k, v] of storage), run to its end
Iterate ==
  /\ \E ks \in insertionOrders(data) : \E out \in iterateFrom(data, ks, <<>>) :
        /\ data' = out.data
        /\ last' = [NoCall EXCEPT !.op = "iterate", !.yielded = out.yielded]
  /\ UNCHANGED <<size, maxSize, isCandidate, procs>>

\* a forced eviction pass, as the tests run it: LS['trimOldEntries']()
TrimOldEntries ==
  /\ \E d2 \in trimOldEntries(data) :
        /\ data' = d2
        /\ last' = [NoCall EXCEPT !.op = "trimOldEntries", !.valPasses = {passRecord(data, d2)}]
  /\ UNCHANGED <<size, maxSize, isCandidate, procs>>

Next ==
  \/ \E key \in Keys, val \in Values : Set(key, val)
  \/ \E key \in Keys : Get(key)
  \/ \E key \in Keys : Delete(key)
  \/ \E key \in HasKeys : Has(key)
  \/ Clear
  \/ \E prefix \in Prefixes : DeletePrefix(prefix)
  \/ TrimOldEntries

Spec == Init /\ [][Next]_vars

\* one manager driven with keys that are free of the delimiter
NextPlain ==
  \/ \E key \in AcceptedKeys \cup {recentKey}, val \in InsertValues : Set(key, val)
  \/ \E key \in AcceptedKeys \cup {recentKey} : Get(key)
  \/ \E key \in AcceptedKeys \cup {recentKey} : Delete(key)
  \/ Clear
  \/ \E prefix \in Prefixes : DeletePrefix(prefix)
  \/ TrimOldEntries

SpecPlain == Init /\ [][NextPlain]_vars

\* one manager driven by set and delete on accepted keys only
NextSetDelete ==
  \/ \E key \in AcceptedKeys, val \in Values : Set(key, val)
  \/ \E key \in AcceptedKeys : Delete(key)

SpecSetDelete == Init /\ [][NextSetDelete]_vars

\* a fresh manager on the default fallback store, which holds far more entries
\* than the keys inserted here, so that no write raises
InitInsert ==
  /\ data = EmptyData
  /\ size = FallbackSize
  /\ maxSize \in 1..MaxMaxSize
  /\ isCandidate \in {"none", "filter"}
  /\ last = NoCall
  /\ procs = [i \in Instances |-> Idle]

\* insertion of keys that are distinct from all keys inserted so far
NextInsert ==
  \E key \in InsertKeys \ DOMAIN data, val \in InsertValues : Set(key, val)

SpecInsert == InitInsert /\ [][NextInsert]_vars

\* new LocalStorageLRU({ typePrefixes, typePrefixDelimiter, localStorage }) over
\* the provider in use
New(custom, delim) ==
  /\ LET prefixes == preparePrefixes(custom, delim)
     IN last' = [NoCall EXCEPT !.prefixes = prefixes,
                               !.threw = IF checkPrefixes(prefixes) THEN "prefixes" ELSE "none"]
  /\ UNCHANGED <<data, size, maxSize, isCandidate, procs>>

\* managers are constructed; one that was constructed with the default table
\* is used
NextConstruct ==
  \/ \E custom \in PrefixConfigs, delim \in PrefixDelimiters : New(custom, delim)
  \/ /\ last.threw # "prefixes" /\ last.prefixes = typePrefixes
     /\ \/ \E val \in InsertValues : Set(CodecKey, val)
        \/ Get(CodecKey)

SpecConstruct == InitInsert /\ [][NextConstruct]_vars

\* the default store after n distinct keys were set by a manager that tracks
\* one key: it holds the n keys and the list of the last one
filled(n) ==
  [k \in {TrimKey(i) : i \in 1..n} \cup (IF n > 0 THEN {recentKey} ELSE {}) |->
     IF k = recentKey THEN TrimKey(n) ELSE serialize(Num(7))]

\* the empty store, small ones, and those with more entries outside the list
\* than one pass may delete
InitTrim ==
  /\ \E n \in {0, 1, 2, 3, Len(TrimKeyNames) - 1, Len(TrimKeyNames)} : data = filled(n)
  /\ size = FallbackSize
  /\ maxSize = 1
  /\ isCandidate = "none"
  /\ last = NoCall
  /\ procs = [i \in Instances |-> Idle]

\* one eviction pass on such a store
NextTrim == last.op = "new" /\ TrimOldEntries

SpecTrim == InitTrim /\ [][NextTrim]_vars

\* one key of a manager on the default store is set to the codec values and read
NextCodec ==
  \/ \E val \in CodecValues : Set(CodecKey, val)
  \/ Get(CodecKey)

SpecCodec == InitInsert /\ [][NextCodec]_vars

\* a manager on the default store, which at some point starts to raise on every
\* access; from then on the read operations are called
NextFaulty ==
  \/ size # Banned /\ \E key \in AcceptedKeys, val \in InsertValues : Set(key, val)
  \/ \E key \in Keys : Get(key)
  \/ \E key \in HasKeys : Has(key)
  \/ GetRecent
  \/ KeysCall
  \/ SizeCall
  \/ Ban

SpecFaulty == InitInsert /\ [][NextFaulty]_vars

\* a fresh manager on a store that the accepted keys fill exactly, or on the
\* default one: distinct keys are set, then the manager is iterated once
InitIterate ==
  /\ data = EmptyData
  /\ size \in {IterateCap, FallbackSize}
  /\ maxSize \in 1..MaxMaxSize
  /\ isCandidate \in {"none", "filter"}
  /\ last = NoCall
  /\ procs = [i \in Instances |-> Idle]

NextIterate ==
  /\ last.op \in {"new", "set"}
  /\ \/ \E key \in AcceptedKeys \ DOMAIN data, val \in InsertValues : Set(key, val)
     \/ Iterate

SpecIterate == InitIterate /\ [][NextIterate]_vars

\* texts that other code left in the store, without a type prefix: JSON texts,
\* texts that are no JSON, and one text with a type prefix
SharedKeys == {<<"a">>, <<"b">>}
LegacyStrings ==
  {<<"{", "\"", "a", "\"", ":", "1", ",", "\"", "b", "\"", ":", "2", "}">>,
   <<"[", "1", ",", "2", "]">>,
   <<"\"", "h", "i", "\"">>,
   <<"1", "2">>, <<"t", "r", "u", "e">>, <<"n", "u", "l", "l">>,
   <<"b", "a", "r">>, <<>>, <<"{">>, <<"[", "1", ",">>, <<"0", "1">>,
   typePrefixes.int \o <<"4">>}

\* get(key) of a manager constructed with parseExistingJSON: true
GetLegacy(key) ==
  /\ \E out \in getWith(data, key, TRUE) : data' = out.data /\ last' = out.call
  /\ UNCHANGED <<size, maxSize, isCandidate, procs>>

\* such a manager on the default store, in which each key holds a legacy text
InitLegacy ==
  /\ data \in [SharedKeys -> LegacyStrings]
  /\ size = FallbackSize
  /\ maxSize \in 1..MaxMaxSize
  /\ isCandidate = "none"
  /\ last = NoCall
  /\ procs = [i \in Instances |-> Idle]

\* the texts are read, and a value that was read is saved again
NextLegacy ==
  \/ \E key \in SharedKeys : GetLegacy(key)
  \/ last.op = "get" /\ Set(last.key, last.ret)

SpecLegacy == InitLegacy /\ [][NextLegacy]_vars

\* the key testLocalStorage writes under
TEST == <<"_", "_", "t", "e", "s", "t", "_", "_">>

\* testLocalStorage(ls) at the time `timestamp`: the data it leaves behind and
\* what it returns.  A raise of setItem, and the failed comparison, end in the
\* catch block, before removeItem.
testLocalStorage(d, timestamp) ==
  IF size = Banned \/ ~setItemOk(d) THEN [data |-> d, ret |-> FALSE]
  ELSE LET written == setItem(d, TEST, timestamp)
       IN IF getItem(written, TEST) # Item(timestamp)
            THEN [data |-> written, ret |-> FALSE]
            ELSE [data |-> removeItem(written, TEST), ret |-> TRUE]

LocalStorageIsAvailable ==
  \* `${Date.now()}`
  /\ \E timestamp \in {<<"1", "7">>, <<"1", "8">>} :
       LET out == testLocalStorage(data, timestamp)
       IN /\ data' = out.data
          /\ last' = [NoCall EXCEPT !.op = "probe", !.ret = Bool(out.ret)]
  /\ UNCHANGED <<size, maxSize, isCandidate, procs>>

\* a manager whose keys include the one of the probe; the provider may start to
\* raise on every access
NextProbe ==
  \/ \E key \in {<<"a">>, TEST}, val \in InsertValues : Set(key, val)
  \/ \E key \in {<<"a">>, TEST} : Delete(key)
  \/ LocalStorageIsAvailable
  \/ Ban

SpecProbe == Init /\ [][NextProbe]_vars

----------------------------------------------------------------------------
(* Two managers on one store: a call is a sequence of provider calls, and the
   provider calls of the two managers interleave *)

\* mutant: the list is not cut before the key is put in front
nextRecentUsageUncut(recent, key) == <<key>> \o without(recent, key)

\* the list recordUsage writes when it has read `recent`
nextRecentUsageOf(recent, key) == <<key>> \o without(slice0(recent, maxSize - 1), key)

\* the manager i goes on as q
step(i, q) == procs' = [procs EXCEPT ![i] = q]

\* p outside trim: the locals of size() and trimOldEntries are gone
clean(p) == [Idle EXCEPT !.op = p.op, !.key = p.key, !.next = p.next]

\* where the call goes on when recordUsage is over: set writes the value, get returns
afterUsage(p) ==
  IF p.op = "set" THEN [Idle EXCEPT !.op = p.op, !.key = p.key, !.pc = "val_set"] ELSE Idle

\* set(key, val) up to its first provider call, the getItem of getRecent
StartSet(i, key) ==
  /\ procs[i].pc = "idle"
  /\ step(i, IF keyError(key) # "none"
               THEN [Idle EXCEPT !.op = "set", !.key = key, !.threw = keyError(key)]
               ELSE [Idle EXCEPT !.op = "set", !.key = key, !.pc = "ru_set",
                                 !.next = nextRecentUsageOf(getRecent(data), key)])
  /\ UNCHANGED <<data, size, maxSize, isCandidate, last>>

\* get(key) up to its first provider call, getItem(key)
StartGet(i, key) ==
  /\ procs[i].pc = "idle"
  /\ step(i, [Idle EXCEPT !.op = "get", !.key = key, !.pc = "ru_get"])
  /\ UNCHANGED <<data, size, maxSize, isCandidate, last>>

\* delete(key) up to its first provider call, the getItem of getRecent
StartDelete(i, key) ==
  /\ procs[i].pc = "idle"
  /\ step(i, IF key = recentKey
               THEN [Idle EXCEPT !.op = "delete", !.key = key, !.threw = "reserved"]
               ELSE [Idle EXCEPT !.op = "delete", !.key = key, !.pc = "du_set",
                                 !.next = without(getRecent(data), key)])
  /\ UNCHANGED <<data, size, maxSize, isCandidate, last>>

\* recordUsage of get: getRecent
RuGet(i) ==
  LET p == procs[i]
  IN /\ p.pc = "ru_get"
     /\ step(i, [p EXCEPT !.pc = "ru_set", !.next = nextRecentUsageOf(getRecent(data), p.key)])
     /\ UNCHANGED <<data, size, maxSize, isCandidate, last>>

\* recordUsage: setItem(recentKey, nextRecentUsage), and trim when it raises
RuSet(i) ==
  LET p == procs[i]
  IN /\ p.pc = "ru_set"
     /\ IF setItemOk(data)
          THEN /\ data' = setItem(data, recentKey, join(p.next, delimiter))
               /\ step(i, afterUsage(p))
          ELSE /\ data' = data
               /\ step(i, [clean(p) EXCEPT !.pc = "t_len1", !.target = "rec"])
     /\ UNCHANGED <<size, maxSize, isCandidate, last>>

\* set: setItem(key, valSer), and trim when it raises
ValSet(i) ==
  LET p == procs[i]
  IN /\ p.pc = "val_set"
     /\ IF setItemOk(data)
          THEN /\ data' = setItem(data, p.key, serialize(Num(7)))
               /\ step(i, Idle)
          ELSE /\ data' = data
               /\ step(i, [clean(p) EXCEPT !.pc = "t_len1", !.target = "val"])
     /\ UNCHANGED <<size, maxSize, isCandidate, last>>

\* deleteUsage: setItem(recentKey, ...); a raise is logged
DuSet(i) ==
  LET p == procs[i]
  IN /\ p.pc = "du_set"
     /\ data' = IF setItemOk(data) THEN setItem(data, recentKey, join(p.next, delimiter)) ELSE data
     /\ step(i, [clean(p) EXCEPT !.pc = "rm"])
     /\ UNCHANGED <<size, maxSize, isCandidate, last>>

\* delete: removeItem(key)
Rm(i) ==
  LET p == procs[i]
  IN /\ p.pc = "rm"
     /\ data' = removeItem(data, p.key)
     /\ step(i, Idle)
     /\ UNCHANGED <<size, maxSize, isCandidate, last>>

\* size(): this.ls.length.  trimOldEntries calls size() at its start (1), for
\* num (2) and after every removeItem (3)
TLen(i) ==
  LET p == procs[i]
  IN /\ p.pc \in {"t_len1", "t_len2", "t_len3"}
     /\ step(i, [p EXCEPT !.n = length(data),
                          !.pc = CASE p.pc = "t_len1" -> "t_has1"
                                   [] p.pc = "t_len2" -> "t_has2"
                                   [] OTHER -> "t_has3"])
     /\ UNCHANGED <<data, size, maxSize, isCandidate, last>>

\* size(): this.has(this.recentKey), and what trimOldEntries does with the result
THas(i) ==
  LET p == procs[i]
      sz == p.n - (IF has(data, recentKey) THEN 1 ELSE 0)
  IN /\ p.pc \in {"t_has1", "t_has2", "t_has3"}
     /\ step(i, CASE p.pc = "t_has1" ->
                       [p EXCEPT !.n = 0, !.pc = IF sz = 0 THEN "t_write" ELSE "t_len2"]
                  [] p.pc = "t_has2" ->
                       [p EXCEPT !.n = 0, !.pc = "t_keys", !.num = Min(sz, MaxDeletes)]
                  [] OTHER ->
                       IF sz = 0
                         THEN [p EXCEPT !.n = 0, !.pc = "t_write", !.num = 0,
                                        !.cands = {}, !.skips = FALSE]
                         ELSE [p EXCEPT !.n = 0, !.pc = "t_draw"])
     /\ UNCHANGED <<data, size, maxSize, isCandidate, last>>

\* trimOldEntries: this.keys()
TKeys(i) ==
  LET p == procs[i]
  IN /\ p.pc = "t_keys"
     /\ step(i, [p EXCEPT !.pc = "t_recent", !.snap = keys(data)])
     /\ UNCHANGED <<data, size, maxSize, isCandidate, last>>

\* the keys of the snapshot that a draw deletes when the list read is recent; a
\* draw on an empty snapshot gives undefined, which is deleted as well
\* (delete this.data[undefined] names the property "undefined")
candidates(snap, recent) ==
  IF snap = {} THEN {<<"u", "n", "d", "e", "f", "i", "n", "e", "d">>}
  ELSE { k \in snap : /\ ~includes(recent, k)
                      /\ (isCandidate = "none" \/ isCandidateFn(k, recent)) }

\* trimOldEntries: this.getRecent()
TRecent(i) ==
  LET p == procs[i]
      cands == candidates(p.snap, getRecent(data))
  IN /\ p.pc = "t_recent"
     /\ step(i, [p EXCEPT !.pc = "t_draw", !.snap = {}, !.cands = cands,
                          !.skips = (p.snap \ cands # {})])
     /\ UNCHANGED <<data, size, maxSize, isCandidate, last>>

\* trimOldEntries: the draws up to the next removeItem(candidate)
TRemove(i) ==
  LET p == procs[i]
  IN /\ p.pc = "t_draw"
     /\ \E k \in p.cands :
          /\ data' = removeItem(data, k)
          /\ step(i, IF p.num - 1 <= 0
                       THEN [p EXCEPT !.pc = "t_write", !.num = 0, !.cands = {}, !.skips = FALSE]
                       ELSE [p EXCEPT !.pc = "t_len3", !.num = p.num - 1])
     /\ UNCHANGED <<size, maxSize, isCandidate, last>>

\* trim: setItem(key, val) after the pass, which is over also when the draws
\* that are left all give keys that are skipped.  The rounds are not counted:
\* after a write that raised trim runs another round or gives up, which covers
\* the TrimRounds rounds of the code whatever the other manager does meanwhile.
TWrite(i) ==
  LET p == procs[i]
      text == IF p.target = "rec" THEN join(p.next, delimiter) ELSE serialize(Num(7))
      name == IF p.target = "rec" THEN recentKey ELSE p.key
      \* where the call goes on when trim is over
      afterTrim == IF p.target = "rec" THEN afterUsage(p) ELSE Idle
  IN /\ \/ p.pc = "t_write"
        \/ p.pc = "t_draw" /\ p.skips
     /\ IF setItemOk(data)
          THEN /\ data' = setItem(data, name, text)
               /\ step(i, afterTrim)
          ELSE /\ data' = data
               /\ \/ step(i, [clean(p) EXCEPT !.pc = "t_len1", !.target = p.target])
                  \/ step(i, afterTrim)
     /\ UNCHANGED <<size, maxSize, isCandidate, last>>

\* the two managers, which have no candidate filter, are constructed on an
\* empty store, which has room for the recency entry and the value of one of
\* the keys or is the default one
InitShared ==
  /\ data = EmptyData
  /\ size \in {Cardinality(SharedKeys), FallbackSize}
  /\ maxSize \in 1..MaxMaxSize
  /\ isCandidate = "none"
  /\ last = NoCall
  /\ procs = [i \in Instances |-> Idle]

NextShared ==
  \E i \in Instances :
     \/ \E key \in SharedKeys \cup {recentKey} : StartSet(i, key) \/ StartDelete(i, key)
     \/ \E key \in SharedKeys : StartGet(i, key)
     \/ RuGet(i) \/ RuSet(i) \/ ValSet(i) \/ DuSet(i) \/ Rm(i)
     \/ TLen(i) \/ THas(i) \/ TKeys(i) \/ TRecent(i) \/ TRemove(i) \/ TWrite(i)

SpecShared == InitShared /\ [][NextShared]_vars

----------------------------------------------------------------------------
(* Helpers of the properties *)

\* the keys an eviction pass may delete when it has read the list `recent`
Evictable(d, recent) ==
  { k \in keys(d) : /\ ~includes(recent, k)
                    /\ (isCandidate = "none" \/ isCandidateFn(k, recent)) }

\* the keys other than k that are in both lists have the same order in both
orderKept(pre, post, k) ==
  LET both == (elements(pre) \cap elements(post)) \ {k}
  IN restrictTo(pre, both) = restrictTo(post, both)

\* the call raised no error to its caller
returned(call) == call.threw = "none"

\* s begins with a type prefix and the delimiter after it
matchesPrefix(s) ==
  \E t \in DOMAIN DEFAULT_TYPE_PREFIXES :
     startsWith(s, DEFAULT_TYPE_PREFIXES[t] \o typePrefixDelimiter)

\* an eviction pass of the call removed at least one entry
evictedSome(call) == \E p \in call.recPasses \cup call.valPasses : p.removed # {}

\* the call stored serialize(val) under its key
storedBy(d, call) == call.key \in DOMAIN d /\ d[call.key] = serialize(call.val)

\* set hit a capacity error while the store held an evictable entry: either the
\* write of the list raised (store d), or only the write of the value did
\* (store d with the list already rewritten)
setHitCapacityWithEvictable(d, call) ==
  /\ call.op = "set" /\ returned(call)
  /\ \/ call.recPasses # {} /\ Evictable(d, getRecent(d)) # {}
     \/ call.recPasses = {} /\ call.hitCap /\ Evictable(d, call.recentAtWrite) # {}

----------------------------------------------------------------------------
(* C1 - set, get and delete never raise for a key that is neither the recency *)
(* key nor contains the delimiter, in every store state.                       *)
(* set raises when the serializer (JSON.stringify) raises on the value.        *)
C1_NoRaise ==
  (last.op \in {"set", "get", "delete"} /\ last.key # recentKey /\ indexOf(last.key, delimiter) = 0)
    => returned(last)

(* C2 - as claimed: when set(k, v) hits a capacity error on a store that holds *)
(* an evictable entry, the store holds serialize(v) under k when set returns.  *)
C2_EvictableImpliesStored ==
  [][ setHitCapacityWithEvictable(data, last') => storedBy(data', last') ]_vars

(* C2 - amended: when set(k, v) hits a capacity error on a store that holds an *)
(* evictable entry and a draw of one of its eviction passes selects such an    *)
(* entry (so the pass removes it), the store holds serialize(v) under k when   *)
(* set returns.                                                                *)
C2_EvictedImpliesStored ==
  [][ (setHitCapacityWithEvictable(data, last') /\ evictedSome(last'))
        => storedBy(data', last') ]_vars

C2_Witness ==
  /\ last.op = "set" /\ returned(last)
  /\ \E p \in last.recPasses : p.removed # {}
  /\ size = MaxCap /\ length(data) = size
  /\ storedBy(data, last)

(* C3 - an eviction pass never deletes a key that is in the recency list as    *)
(* stored when the pass starts, and never deletes the recency key, whatever    *)
(* the draws select.                                                           *)
C3_PassSparesRecent ==
  \A p \in last.recPasses \cup last.valPasses :
     \A k \in p.removed : ~includes(p.recent, k) /\ k # recentKey

C3_Witness ==
  \E p \in last.recPasses \cup last.valPasses :
     /\ p.removed # {}
     /\ \E i \in 1..Len(p.recent) : p.recent[i] \in DOMAIN data

(* C4 - a stored key that isCandidate rejects is never removed by an eviction  *)
(* pass: it leaves the store only through delete, deletePrefix or clear.       *)
C4_FilteredKeyStays ==
  [][ \A k \in keys(data) :
        (isCandidate # "none" /\ ~isCandidateFn(k, getRecent(data)) /\ k \notin DOMAIN data')
          => last'.op \in {"delete", "deletePrefix", "clear"} ]_vars

C4_Witness ==
  /\ isCandidate = "filter"
  /\ KeepKey \in DOMAIN data
  /\ \E p \in last.recPasses \cup last.valPasses :
        p.removed # {} /\ ~includes(p.recent, KeepKey)

C6_SetPutsKeyFirst ==
  [][ (last'.op = "set" /\ returned(last') /\ length(data) < size)
        => getRecent(data') = <<last'.key>> \o without(getRecent(data), last'.key) ]_vars

(* C6 - amended: after set(k, v) on a store with free capacity, getRecent() is *)
(* k followed by the keys among the first maxSize - 1 entries of the previous  *)
(* list other than k, in their previous order.                                 *)
C6_SetPutsKeyFirstInWindow ==
  [][ (last'.op = "set" /\ returned(last') /\ length(data) < size)
        => getRecent(data') =
             <<last'.key>> \o without(slice0(getRecent(data), maxSize - 1), last'.key) ]_vars

C6_Witness ==
  /\ last.op = "set" /\ returned(last) /\ length(data) < size
  /\ Len(getRecent(data)) >= 2
  /\ getRecent(data)[1] = last.key
  /\ getRecent(data)[2] \in PlainKeys

(* C7 - after get(k) on a store with free capacity, k is the first element of  *)
(* getRecent() and the other tracked keys keep their relative order; get       *)
(* returns null for a key without a value and the stored value otherwise, and  *)
(* leaves the value stored.                                                    *)
C7_GetPutsKeyFirst ==
  [][ (last'.op = "get" /\ length(data) < size)
        => /\ returned(last')
           /\ Len(getRecent(data')) > 0 /\ getRecent(data')[1] = last'.key
           /\ orderKept(getRecent(data), getRecent(data'), last'.key)
           /\ last'.key \notin DOMAIN data => last'.ret = JsNull
           /\ last'.key \in keys(data) =>
                /\ serialize(last'.ret) = data[last'.key]
                /\ last'.key \in DOMAIN data' /\ data'[last'.key] = data[last'.key] ]_vars

(* C8 - after delete(k) for a key other than the recency key, k has no stored  *)
(* value, k is not in getRecent(), and the other tracked keys are still in the *)
(* list in their previous relative order, in every store state.                *)
C8_DeleteRemovesKey ==
  [][ (last'.op = "delete" /\ last'.key # recentKey)
        => /\ returned(last')
           /\ last'.key \notin DOMAIN data'
           /\ ~includes(getRecent(data'), last'.key)
           /\ elements(getRecent(data)) \ {last'.key} \subseteq elements(getRecent(data'))
           /\ orderKept(getRecent(data), getRecent(data'), last'.key) ]_vars

(* C9 - set(recentKey, v) and delete(recentKey) raise the reserved-key error   *)
(* and leave every entry of the store, the recency entry included, as it was.  *)
C9_ReservedKeyRejected ==
  [][ (last'.op \in {"set", "delete"} /\ last'.key = recentKey)
        => last'.threw = "reserved" /\ data' = data ]_vars

C9_Witness ==
  /\ last.op \in {"set", "delete"} /\ last.key = recentKey /\ last.threw = "reserved"
  /\ has(data, recentKey) /\ keys(data) # {}

(* C10 - set with a key that contains the delimiter raises an error before any *)
(* provider access: neither the recency list nor any stored entry changes.     *)
C10_DelimiterKeyRejected ==
  [][ (last'.op = "set" /\ indexOf(last'.key, delimiter) # 0)
        => last'.threw = "delimiter" /\ data' = data ]_vars

C10_Witness ==
  /\ last.op = "set" /\ last.key = DelimKey /\ last.threw = "delimiter"
  /\ has(data, recentKey) /\ keys(data) # {}

(* C11 - in every state reachable by the public operations with arbitrary key  *)
(* arguments, getRecent() has at most maxSize elements.                        *)
(* get records a key that contains the delimiter, which getRecent() reads back *)
(* as several keys.                                                            *)
C11_RecentAtMostMaxSize == Len(getRecent(data)) <= maxSize

(* C12 - in every state reachable by the public operations with arbitrary key  *)
(* arguments, getRecent() contains no key more than once.                      *)
C12_RecentHasNoDuplicate ==
  LET recent == getRecent(data)
  IN \A i, j \in 1..Len(recent) : i # j => recent[i] # recent[j]

(* C13 - after any sequence of public operations with arbitrary key arguments, *)
(* the recency key is not a member of getRecent().                             *)
C13_RecentKeyNotInRecent == ~includes(getRecent(data), recentKey)

(* C14 - with one manager driven by set and delete on accepted keys, every key *)
(* in getRecent() has a stored value (specification SpecSetDelete).            *)
C14_RecentKeysAreStored ==
  \A k \in elements(getRecent(data)) : has(data, k)

(* C15 - inserting distinct keys into a store that never raises (specification *)
(* SpecInsert): each set puts its key in front of the list and keeps the       *)
(* first maxSize entries, so the list is the last maxSize keys set, most       *)
(* recent first; it has exactly maxSize elements once maxSize keys are set;    *)
(* and every entry set so far stays stored.                                    *)
C15_WindowOfLastKeysSet ==
  [][ last'.op = "set"
        => /\ getRecent(data') = slice0(<<last'.key>> \o getRecent(data), maxSize)
           /\ keys(data') = keys(data) \cup {last'.key}
           /\ \A k \in keys(data) : data'[k] = data[k]
           /\ data'[last'.key] = serialize(last'.val)
           /\ lruSize(data') >= maxSize => Len(getRecent(data')) = maxSize
           /\ lruSize(data') < maxSize => Len(getRecent(data')) = lruSize(data') ]_vars

C15_Witness ==
  /\ last.op = "set" /\ size = FallbackSize
  /\ maxSize >= 2 /\ lruSize(data) > maxSize
  /\ Len(getRecent(data)) = maxSize
  /\ getRecent(data)[1] = last.key

(* C16 - if the value write of set(k, v) fails and every eviction-and-retry    *)
(* attempt fails too, set returns normally and the stored entries and the      *)
(* recency list are what they were before the call.                            *)
(* recordUsage has already rewritten the list (and may have evicted entries)   *)
(* when the value write fails.                                                 *)
C16_FailedSetIsNoOp ==
  [][ (last'.op = "set" /\ last'.hitCap /\ ~last'.valOk)
        => returned(last') /\ data' = data ]_vars

(* C17 - has(k) returns true exactly when the provider holds a value under k,  *)
(* and changes neither the recency list nor any stored entry.                  *)
(* The fallback provider answers getItem for a name its data object inherits.  *)
C17_HasIffStored ==
  [][ last'.op = "has"
        => /\ returned(last')
           /\ last'.ret = Bool(last'.key \in DOMAIN data)
           /\ data' = data ]_vars

(* C18 - after clear() returned true the store holds no entry, the recency     *)
(* entry included: size() is 0, getRecent() is empty, and get(k) returns null  *)
(* for every key k that was stored before.                                     *)
C18_ClearResetsEverything ==
  [][ (last'.op = "clear" /\ last'.ret = Bool(TRUE))
        => /\ DOMAIN data' = {}
           /\ lruSize(data') = 0
           /\ getRecent(data') = <<>>
           /\ \A k \in keys(data) : \A out \in get(data', k) : out.call.ret = JsNull ]_vars

(* C19 - in every reachable state size() is the number of stored entries whose *)
(* key is not the recency key, which is the length of keys(), and keys() does  *)
(* not contain the recency key.                                                *)
C19_SizeCountsCallerKeys ==
  /\ lruSize(data) = Cardinality({k \in DOMAIN data : k # recentKey})
  /\ lruSize(data) = Cardinality(keys(data))
  /\ recentKey \notin keys(data)

C19_Witness ==
  /\ has(data, recentKey)
  /\ lruSize(data) >= 2
  /\ length(data) = lruSize(data) + 1

(* C20 - after deletePrefix(p) no stored key other than the recency key starts *)
(* with p, every stored caller key that does not start with p keeps its value, *)
(* and the recency entry is still present.                                     *)
C20_DeletePrefixRemovesMatches ==
  [][ last'.op = "deletePrefix"
        => /\ returned(last')
           /\ \A k \in keys(data') : ~startsWith(k, last'.key)
           /\ \A k \in keys(data) :
                ~startsWith(k, last'.key) => k \in DOMAIN data' /\ data'[k] = data[k]
           /\ has(data, recentKey) => has(data', recentKey) ]_vars

C20_Witness ==
  /\ last.op = "deletePrefix" /\ last.key = <<"a">>
  /\ last.gone # {}
  /\ keys(data) # {}
  /\ has(data, recentKey)

(* C21 - iterating the manager yields exactly one (key, value) pair for every  *)
(* key that is stored when the iteration starts and whose value is not null,   *)
(* with the value stored for that key, also on a full capacity-limited store   *)
(* (specification SpecIterate).                                                *)
(* get(k) records the usage of k; on a full store that write evicts entries    *)
(* the iteration has not visited yet.                                          *)
C21_IterationYieldsEveryStoredKey ==
  [][ last'.op = "iterate"
        => LET ys == last'.yielded
               expected == { <<k, deserialize(getItem(data, k))>> :
                               k \in {x \in keys(data) : deserialize(getItem(data, x)) # JsNull} }
           IN /\ { ys[i] : i \in 1..Len(ys) } = expected
              /\ Len(ys) = Cardinality(expected) ]_vars

(* C22 - when the provider raises on access, each of get, has, getRecent, keys *)
(* and size returns a default value instead of raising: get null, getRecent    *)
(* the empty sequence, size 0 (specification SpecFaulty).                      *)
(* has and keys have no try: what the provider raises reaches the caller.      *)
C22_ReadsReturnDefaults ==
  (size = Banned /\ last.op \in {"get", "has", "getRecent", "keys", "size"})
    => /\ returned(last)
       /\ last.op = "get" => last.ret = JsNull
       /\ last.op = "getRecent" => last.ret = Arr(<<>>)
       /\ last.op = "size" => last.ret = Num(0)

(* C23 - for every value v among plain strings, integers, floats (NaN and the  *)
(* infinities included), booleans, null, dates, big integers, nested objects   *)
(* and arrays, get(k) after set(k, v) returns a value of the same kind equal   *)
(* to v, and null for undefined (specification SpecCodec).                     *)
(* The integer -0 is written as "0", and an integer from 1e21 on in exponent   *)
(* notation, of which parseInt reads the digits before the "e".                *)
C23_SetGetRoundTrip ==
  [][ ( /\ last.op = "set" /\ returned(last) /\ last.valOk
        /\ last.val.kind = "string" => ~matchesPrefix(last.val.str)
        /\ last'.op = "get" /\ last'.key = last.key )
        => last'.ret = (IF last.val = Undefined THEN JsNull ELSE last.val) ]_vars

(* C24 - for every string s, those that begin with the text of a type prefix   *)
(* included, set(k, s) stores exactly s under k and get(k) returns exactly s;  *)
(* a plain string that is in the provider is read back unchanged               *)
(* (specification SpecCodec).                                                  *)
(* A string that begins with a type prefix and the delimiter after it is read  *)
(* back as a value of that type.                                               *)
C24_StringReadBackUnchanged ==
  /\ (last.op = "set" /\ last.valOk /\ last.val.kind = "string")
       => data[last.key] = last.val.str
  /\ (last.op = "get" /\ last.key \in DOMAIN data)
       => \A s \in CodecStrings : data[last.key] = s => last.ret = Str(s)

(* C24, amended - set(k, s) stores exactly s under k for every string s; for   *)
(* every string s that does not begin with a type prefix followed by the type  *)
(* prefix delimiter, the text of a prefix without the delimiter included,      *)
(* get(k) returns exactly s, whether set stored it or it was in the provider.  *)
C24_UnprefixedStringReadBackUnchanged ==
  /\ (last.op = "set" /\ last.valOk /\ last.val.kind = "string")
       => data[last.key] = last.val.str
  /\ (last.op = "get" /\ last.key \in DOMAIN data /\ ~matchesPrefix(data[last.key]))
       => last.ret = Str(data[last.key])

\* get has returned a string that begins with the text of a type prefix
C24_Witness ==
  /\ last.op = "get" /\ last.key \in DOMAIN data
  /\ last.ret = Str(data[last.key])
  /\ \E t \in DOMAIN DEFAULT_TYPE_PREFIXES : startsWith(data[last.key], DEFAULT_TYPE_PREFIXES[t])

\* the remainder after the type prefix t cannot be read as a value of type t
unparsable(t, s) ==
  CASE t = "object" -> ~deserializer(s).ok
    [] t = "int" -> parseInt(s) = NaN
    [] t = "float" -> parseFloat(s) = NaN /\ s # numberToString(NaN)
    [] t = "date" -> parseInt(s) = NaN /\ s # numberToString(NaN)
    [] t = "bigint" -> ~parseBigInt(s).ok

(* C25 - deserialize never raises: when the raw string matches a type prefix   *)
(* (object, int, float, date, bigint) but the remainder cannot be parsed as    *)
(* that kind, the result is the raw remainder after the prefix                 *)
(* (specification SpecCodec).                                                  *)
(* parseInt, parseFloat and new Date do not raise on such a remainder: the     *)
(* result is NaN or an invalid date.                                           *)
C25_UnparsableGivesRemainder ==
  (last.op = "get" /\ last.key \in DOMAIN data)
    => /\ returned(last)
       /\ \A t \in DOMAIN typePrefixes :
            LET raw == data[last.key]
                s == SubSeq(raw, Len(typePrefixes[t]) + 1, Len(raw))
            IN (startsWith(raw, typePrefixes[t]) /\ unparsable(t, s)) => last.ret = Str(s)

(* C26 - constructing a manager raises a configuration error exactly when two  *)
(* of its five type prefixes are equal after the delimiter is put after them;  *)
(* with pairwise distinct prefixes construction succeeds, and no store         *)
(* operation raises a prefix error later (specification SpecConstruct).        *)
C26_DistinctPrefixesChecked ==
  /\ last.op = "new"
       => /\ last.threw \in {"none", "prefixes"}
          /\ last.threw = "prefixes"
               <=> \E t1, t2 \in DOMAIN last.prefixes :
                      t1 # t2 /\ last.prefixes[t1] = last.prefixes[t2]
  /\ last.op # "new" => last.threw # "prefixes"

\* a construction was refused for a configured prefix that equals a default one
C26_Witness ==
  /\ last.op = "new" /\ last.threw = "prefixes"
  /\ last.prefixes.date = typePrefixes.int
  /\ last.prefixes.int = typePrefixes.int

\* the keys under which the step has written: the new ones and those whose
\* value has changed
written == (DOMAIN data' \ DOMAIN data) \cup {k \in DOMAIN data \cap DOMAIN data' : data'[k] # data[k]}

(* C27 - across set, get and delete the manager writes into the provider only  *)
(* under the key the caller gave to the operation and under the recency key:   *)
(* the stored entries are the stored caller keys and at most one more.         *)
C27_OnlyCallerKeyAndRecentKeyWritten ==
  [][ last'.op \in {"set", "get", "delete"}
        => /\ written \subseteq (IF last'.op = "set" THEN {last'.key, recentKey} ELSE {recentKey})
           /\ keys(data') \subseteq keys(data) \cup {last'.key}
           /\ length(data') <= Cardinality(keys(data')) + 1 ]_vars

\* a set has stored a second caller key next to the recency entry
C27_Witness ==
  /\ last.op = "set" /\ last.valOk /\ last.recOk
  /\ Cardinality(keys(data)) = 2 /\ length(data) = 3

(* C28 - the in-memory fallback store never holds more entries than its        *)
(* maximum, whatever operations of the manager drive it, and a setItem that    *)
(* raises 'storage full' leaves its contents unchanged: a set whose writes     *)
(* all raise and whose eviction passes remove nothing leaves the store as it   *)
(* was.                                                                        *)
C28_FallbackWithinCapacity ==
  [][ /\ length(data') <= size'
      /\ ( /\ last'.op = "set" /\ last'.hitCap /\ ~last'.recOk /\ ~last'.valOk
           /\ ~evictedSome(last') )
           => data' = data ]_vars

\* a set was refused by a full store of the largest bounded capacity
C28_Witness ==
  /\ size = MaxCap /\ length(data) = size
  /\ last.op = "set" /\ last.hitCap /\ ~last.recOk /\ ~last.valOk

C30_PassRemovesAtMostTen ==
  [][ last'.op = "trimOldEntries"
        => LET removed == DOMAIN data \ DOMAIN data'
           IN /\ Cardinality(removed) <= Min(MaxDeletes, lruSize(data))
              /\ lruSize(data') >= lruSize(data) - MaxDeletes
              /\ recentKey \notin removed
              /\ \A k \in DOMAIN data' : k \in DOMAIN data /\ data'[k] = data[k]
              /\ lruSize(data) = 0 => data' = data ]_vars

\* a pass has removed ten entries and left an entry it could have removed
C30_Witness ==
  /\ last.op = "trimOldEntries"
  /\ \E p \in last.valPasses : Cardinality(p.removed) = MaxDeletes
  /\ Cardinality(keys(data) \ elements(getRecent(data))) >= 1

(* C31 - trim runs at most 10 rounds, each one eviction pass and one further   *)
(* attempt of the failed write; it returns true right after the first write    *)
(* that succeeds and false after 10 failed rounds, so that one set tries to    *)
(* write the value at most 11 times and always ends.                           *)
C31_SetWritesAtMostElevenTimes ==
  (last.op = "set" /\ returned(last))
    => /\ last.valAttempts \in 1..(TrimRounds + 1)
       /\ ~last.hitCap <=> last.valAttempts = 1
       /\ ~last.valOk => last.valAttempts = TrimRounds + 1
       /\ last.valOk => data[last.key] = serialize(last.val)
       /\ Cardinality(last.valPasses) <= last.valAttempts - 1

\* a set has written the value in the last round of trim
C31_Witness ==
  /\ last.op = "set" /\ last.valOk
  /\ last.valAttempts = TrimRounds + 1

\* no write of the call to the provider raised
noWriteRaised(call) == ~call.hitCap /\ call.recPasses = {} /\ call.recOk

(* C32 - entries are evicted only in response to a write to the provider that  *)
(* failed: over the sets and gets during which no write raises, no stored      *)
(* entry is removed and no value of another key changes.                       *)
C32_NoEvictionWithoutFailedWrite ==
  [][ (last'.op \in {"set", "get"} /\ returned(last') /\ noWriteRaised(last'))
        => /\ DOMAIN data \subseteq DOMAIN data'
           /\ \A k \in keys(data) \ {last'.key} : data'[k] = data[k] ]_vars

\* a set has stored a third key next to two keys that a list of one key does
\* not protect, and no write has raised
C32_Witness ==
  /\ last.op = "set" /\ last.valOk /\ noWriteRaised(last)
  /\ maxSize = 1
  /\ Cardinality(keys(data)) = 3

C34_GetRemovesNothing ==
  [][ (last'.op = "get" /\ returned(last'))
        => /\ keys(data') = keys(data)
           /\ \A k \in keys(data) : data'[k] = data[k] ]_vars

(* C35 - the stored form of the recency list round-trips: for every list that  *)
(* recordUsage or deleteUsage writes, the empty one included, getRecent()      *)
(* returns the same sequence, so that getRecent() holds only keys that were    *)
(* passed to set or get and not deleted since.                                 *)
(* The empty list is written as the empty string, which getRecent() splits     *)
(* into one empty key.                                                         *)
C35_WrittenListIsReadBack ==
  [][ /\ (last'.op \in {"set", "get"} /\ returned(last') /\ last'.recOk)
           => getRecent(data') =
                <<last'.key>> \o without(slice0(getRecent(data), maxSize - 1), last'.key)
      /\ (last'.op = "delete" /\ returned(last') /\ setItemOk(data))
           => getRecent(data') = without(getRecent(data), last'.key) ]_vars

(* C36 - on a store of capacity C managed with 1 <= maxSize <= C - 2, without  *)
(* an admission predicate and with keys free of the delimiter, every reachable *)
(* state in which the store is full holds a stored key that is not in the      *)
(* recency list (specification SpecPlain).                                     *)
C36_FullStoreHasUnlistedKey ==
  (isCandidate = "none" /\ size # FallbackSize /\ maxSize >= 1 /\ maxSize <= size - 2
     /\ length(data) = size)
    => \E k \in keys(data) : ~includes(getRecent(data), k)

\* a full store of the largest bounded capacity, of a manager without a predicate
C36_Witness ==
  /\ isCandidate = "none" /\ size = MaxCap /\ maxSize <= size - 2
  /\ length(data) = size
  /\ recentKey \in DOMAIN data


\* C40: replacing the value of a key that is already stored succeeds on a
\* fallback store that holds its maximum number of entries: neither write of
\* the set call (the recency entry, the value), both of which replace an
\* existing entry, raises 'storage full', and the value is stored
C40_OverwriteOnFullStoreSucceeds ==
  [][ ( /\ last'.op = "set" /\ returned(last')
        /\ size # Banned
        /\ last'.key \in keys(data)
        /\ recentKey \in DOMAIN data
        /\ length(data) = size )
      => /\ noWriteRaised(last')
         /\ last'.valOk
         /\ data'[last'.key] = serialize(last'.val) ]_vars


\* C39: with parseExistingJSON, the get of a stored string that matches no type
\* prefix enters deserialize once, and returns the parsed value when the string
\* is a JSON text and the string itself otherwise
C39_ProbingParsesOnce ==
  ( /\ last.op = "get" /\ last.probing /\ returned(last)
    /\ last.key \in DOMAIN data
    /\ ~matchesPrefix(data[last.key]) )
  => /\ last.entries = 1
     /\ last.ret = IF deserializer(data[last.key]).ok
                     THEN deserializer(data[last.key]).val
                     ELSE Str(data[last.key])


\* C38: the availability probe returns true or false without raising, and the
\* store holds after it the entries, with their values, that it held before
C38_ProbeLeavesStore ==
  [][ last'.op = "probe"
      => /\ returned(last')
         /\ last'.ret \in {Bool(TRUE), Bool(FALSE)}
         /\ data' = data ]_vars


====
